---- MODULE Spec2Model ----
(***************************************************************************)
(* State-machine model of the StayLink JSON API backend: the schema-       *)
(* adaptive auth controller (register, login, getMe, updateProfile,        *)
(* logout), the verifyToken middleware, the legacy controller, the listing *)
(* routes and the room verify-access route, over a relational store and a  *)
(* connection pool.  Every await on the database is an interleaving point: *)
(* one action runs a handler from the resumption of one await to the       *)
(* database operation of the next.                                         *)
(***************************************************************************)
EXTENDS Integers, Sequences, FiniteSets, TLC

\* ------------------------------------------------------------------ bounds
MaxReq == 2          \* request slots: requests in flight at the same time
MaxFaults == 1       \* unexpected store / pool failures injected in a run
MaxTicks == 3        \* clock advances in a run
MaxTokens == 1       \* tokens a client keeps for later requests

\* -------------------------------------------------------- program constants
MinPasswordLength == 6   \* password.length < 6 is refused
ExpiresIn == 3600        \* jwt.sign(..., { expiresIn: '1h' }), in seconds
LegacyExpiresIn == 86400 \* jwt.sign(..., { expiresIn: '24h' }), in seconds

\* ------------------------------------------------------------- JS values
\* A JavaScript / SQL value: its type tag and, for strings and numbers, its
\* characters.  undefined and NULL carry no characters.
Undef == [t |-> "undefined", v |-> <<>>]
Null == [t |-> "null", v |-> <<>>]
Str(s) == [t |-> "string", v |-> s]
Num(s) == [t |-> "number", v |-> s]

\* !x is false: every value but undefined, null, "" and 0.
Truthy(x) ==
  /\ x.t \notin {"undefined", "null"}
  /\ ~(x.t = "string" /\ x.v = <<>>)
  /\ ~(x.t = "number" /\ x.v = <<"0">>)

LowerChar(c) ==
  CASE c = "A" -> "a"
    [] c = "B" -> "b"
    [] c = "X" -> "x"
    [] OTHER -> c

\* String(email).toLowerCase()
ToLowerCase(x) == Str([i \in DOMAIN x.v |-> LowerChar(x.v[i])])

\* s.split('@')[0]: the characters before the first '@' (all of s without one)
RECURSIVE LocalPart(_)
LocalPart(s) ==
  IF s = <<>> \/ Head(s) = "@" THEN <<>> ELSE <<Head(s)>> \o LocalPart(Tail(s))

\* bcrypt.hash(password, 10): a salted one-way hash, a string marked "$"
BcryptHash(pw) == Str(<<"$">> \o pw.v)

\* ---------------------------------------------------------------- errors
NoError == [name |-> "none", message |-> "", code |-> "", detail |-> ""]
\* an unexpected failure of the store or the pool
ErrStore ==
  [name |-> "error", message |-> "Connection terminated unexpectedly",
   code |-> "08006", detail |-> "server closed the connection"]
\* a statement that names a column or a table the database does not have
ErrUndefined ==
  [name |-> "error", message |-> "column or relation does not exist",
   code |-> "42703", detail |-> ""]
\* the unique index on users.email refusing a second row
ErrUnique ==
  [name |-> "error", message |-> "duplicate key value violates unique constraint",
   code |-> "23505", detail |-> "Key (email) already exists."]
ErrNoColumns ==
  [name |-> "Error", message |-> "No compatible columns found for users insert",
   code |-> "", detail |-> ""]
\* bcrypt.compare given a password that is no string
ErrIllegalArguments ==
  [name |-> "Error", message |-> "Illegal arguments: number, string",
   code |-> "", detail |-> ""]

\* /duplicate key/i.test(error.message || '')
MatchesDuplicateKey(m) == m = "duplicate key value violates unique constraint"

\* ---------------------------------------------------------------- tokens
\* A bearer token: how it is signed, its payload's userId and its exp and
\* iat claims (seconds).  "none" stands for no token at all.
NoToken == [sig |-> "none", userId |-> 0, iat |-> 0, exp |-> 0]
\* jwt.sign({ userId }, JWT_SECRET, { expiresIn }): iat = now, exp = iat + ttl
JwtSign(uid, at, ttl) == [sig |-> "secret", userId |-> uid, iat |-> at, exp |-> at + ttl]

\* ------------------------------------------------------------- responses
NoUser == [id |-> 0, email |-> Undef, name |-> Undef]
NoResp ==
  [status |-> 0, message |-> <<>>, code |-> "", detail |-> "",
   token |-> NoToken, user |-> NoUser, booking_token |-> 0,
   digital_signature |-> "", keys |-> {}]
\* res.status(s).json({ success, message })
Json(s, m) ==
  [NoResp EXCEPT !.status = s, !.message = m, !.keys = {"success", "message"}]

\* ----------------------------------------------------------------- schema
NameColumns == {"full_name", "name"}
IdColumns == {"id", "user_id"}
InsertableColumns == {"email", "full_name", "name", "password_hash", "aadhaar_key"}
Columns == InsertableColumns \cup IdColumns \cup {"created_at", "contact_number"}

VARIABLES
  schema,              \* the columns of the users table ({}: no such table), and
                       \* "audit_logs" when that table exists
  users,               \* the rows of the users table
  nextId,              \* the next value of the users id sequence
  audit,               \* the rows of audit_logs
  env,                 \* process.env.NODE_ENV
  cachedUserIdColumn,  \* the controller's module-level cache
  req,                 \* the request handled in each slot
  pool,                \* connections checked out of the pool
  faults,              \* failures injected so far
  now,                 \* the clock, in seconds
  ticks,               \* clock advances so far
  issued,              \* tokens clients hold
  access,              \* the bookings / rooms / booking_tokens join
  width,               \* requests the deployment handles at the same time
  registered,          \* history: what each 201 of register created
  loggedOut,           \* history: the tokens logout was called with
  written              \* history: the name last written for each user id

vars ==
  <<schema, users, nextId, audit, env, cachedUserIdColumn, req, pool, faults,
    now, ticks, issued, access, width, registered, loggedOut, written>>

Slots == 1..MaxReq

\* ------------------------------------------------------------- requests
NoBody == [email |-> Undef, password |-> Undef, name |-> Undef]
Idle ==
  [op |-> "none", pc |-> "idle", body |-> NoBody, header |-> <<>>,
   user |-> NoToken, next |-> FALSE, client |-> FALSE, released |-> 0,
   faulted |-> FALSE, email |-> Undef, hash |-> Undef, idCol |-> "",
   nameExpr |-> "", createdExpr |-> "", insertCols |-> <<>>, values |-> <<>>,
   sql |-> <<>>, at |-> 0, user_id |-> 0, qr_code_id |-> "",
   aadhaar_key |-> Undef, contact_number |-> Undef, resp |-> NoResp]

\* The lowest free slot takes the next request.
Free(r) ==
  /\ r <= width
  /\ req[r].pc = "idle"
  /\ \A q \in Slots : q < r => req[q].pc # "idle"

\* An awaited call either goes through or, while failures are left to
\* inject, throws.
Outcomes == IF faults < MaxFaults THEN {"ok", "throw"} ELSE {"ok"}
Inject(o) == IF o = "throw" THEN faults + 1 ELSE faults

\* a release that is skipped when the handler threw
ReleaseUnlessFailed(rq) ==
  IF rq.client /\ ~rq.faulted THEN [rq EXCEPT !.released = @ + 1] ELSE rq

\* finally { if (client) client.release(); }
Release(rq) == IF rq.client THEN [rq EXCEPT !.released = @ + 1] ELSE rq
PoolAfter(rq) == IF rq.client THEN [pool EXCEPT !.out = @ - 1] ELSE pool

\* The handler answers and its finally block runs.
Finish(rq, resp) == [Release(rq) EXCEPT !.pc = "done", !.resp = resp]

\* client = await pool.connect(): one more connection is out
Connected(rq, pc) == [rq EXCEPT !.client = TRUE, !.pc = pc]

\* A statement throws when it names a column the table does not have.
Throws(cols, o) == o = "throw" \/ ~(cols \subseteq schema)
Thrown(o) == IF o = "throw" THEN ErrStore ELSE ErrUndefined

\* The handler goes on to its next await / answers and releases.
Goto(r, rq) == req' = [req EXCEPT ![r] = rq] /\ pool' = pool
Answer(r, rq, resp) == req' = [req EXCEPT ![r] = Finish(rq, resp)] /\ pool' = PoolAfter(rq)
Connect(r, rq, pc) ==
  req' = [req EXCEPT ![r] = Connected(rq, pc)] /\ pool' = [pool EXCEPT !.out = @ + 1]
Failed(rq) == [rq EXCEPT !.faulted = TRUE]
\* client.query(stmt): the statement reaches the database
Query(rq, stmt, o) ==
  [rq EXCEPT !.sql = Append(@, stmt), !.faulted = @ \/ o = "throw"]

\* ------------------------------------------------------------ users rows
Row(id, email, fullName, name, hash, key, contact) ==
  [uid |-> id, email |-> email, full_name |-> fullName, name |-> name,
   password_hash |-> hash, aadhaar_key |-> key, contact_number |-> contact]

\* The value an INSERT gives column c: its parameter, or NULL when the
\* column is not in the column list.
ValueOf(cols, vals, c) ==
  IF \E i \in DOMAIN cols : cols[i] = c
  THEN vals[CHOOSE i \in DOMAIN cols : cols[i] = c]
  ELSE Null

Range(s) == {s[i] : i \in DOMAIN s}

\* ------------------------------------------------------ inputs (bounded)
EmailInputs == {Undef, Str(<<"a", "@", "x">>), Str(<<"A", "@", "X">>)}
Secret == Str(<<"s", "e", "c", "r", "e", "t">>)
ShortPassword == Str(<<"s", "e", "c", "r", "t">>)
PasswordInputs ==
  {Undef, Secret, Str(<<"S", "e", "c", "r", "e", "t">>),
   ShortPassword, Num(<<"1", "2", "3", "4", "5", "6", "7">>)}
NameInputs == {Undef, Str(<<"B", "o">>)}
\* register bodies: a valid password with every email and name, and each way
\* of failing the validation
RegisterBodies ==
  [email : EmailInputs \ {Undef}, password : {Secret}, name : NameInputs]
  \cup [email : {Undef}, password : {Secret}, name : {Undef}]
  \cup [email : {Str(<<"a", "@", "x">>)},
        password : PasswordInputs \ {Secret, Str(<<"S", "e", "c", "r", "e", "t">>)},
        name : {Undef}]

\* crypto.randomBytes(16).toString('hex')
RandomKey == Str(<<"9", "f">>)

\* ---------------------------------------------------------------- register
\* register's catch without the remap of the duplicate-key error
RegisterCatchNoRemap(error) ==
  LET payload ==
        Json(500, <<IF error.message # "" THEN error.message
                                          ELSE "Internal server error">>)
  IN  IF env # "production"
      THEN [payload EXCEPT !.code = error.code, !.detail = error.detail,
                           !.keys = @ \cup {"code", "detail"}]
      ELSE payload

\* catch (error) { ... } of register
RegisterCatch(error) ==
  IF error.code = "23505" \/ MatchesDuplicateKey(error.message)
  THEN Json(409, <<"Email already registered">>)
  ELSE LET payload ==
             Json(500, <<IF error.message # "" THEN error.message
                                               ELSE "Internal server error">>)
       IN  IF env # "production"
           THEN [payload EXCEPT !.code = error.code, !.detail = error.detail,
                                !.keys = @ \cup {"code", "detail"}]
           ELSE payload

\* register's validation without the check of the password's length
RegisterValidationNoLength(b) ==
  IF ~Truthy(b.email) \/ ~Truthy(b.password)
  THEN <<"Email and password required">>
  ELSE IF b.password.t # "string"
  THEN <<"Password must be at least 6 characters">>
  ELSE <<>>

\* The message of the 400 a body is refused with (<<>>: the body is valid).
RegisterValidation(b) ==
  IF ~Truthy(b.email) \/ ~Truthy(b.password)
  THEN <<"Email and password required">>
  ELSE IF b.password.t # "string" \/ Len(b.password.v) < MinPasswordLength
  THEN <<"Password must be at least 6 characters">>
  ELSE <<>>

\* The validation of the body, then await pool.connect().
RegisterBegin(r, b, o) ==
  /\ Free(r)
  /\ LET rq == [Idle EXCEPT !.op = "register", !.body = b] IN
     IF RegisterValidation(b) # <<>>
     THEN Answer(r, rq, Json(400, RegisterValidation(b))) /\ faults' = faults
     ELSE LET rn == [rq EXCEPT !.email = ToLowerCase(b.email)] IN
          /\ faults' = Inject(o)
          /\ IF o = "throw"
             THEN Answer(r, Failed(rn), RegisterCatch(ErrStore))
             ELSE Connect(r, rn, "exists")
  /\ UNCHANGED <<schema, users, nextId, audit, env, cachedUserIdColumn, now,
                 ticks, issued, access, width, registered, loggedOut, written>>

\* SELECT 1 FROM users WHERE email = $1, then await bcrypt.hash(password, 10)
RegisterExists(r, o) ==
  /\ req[r].op = "register" /\ req[r].pc = "exists"
  /\ faults' = Inject(o)
  /\ LET rq == Query(req[r], "SELECT users", o)
         existing == {u \in users : u.email = rq.email}
     IN  IF Throws({"email"}, o)
         THEN Answer(r, rq, RegisterCatch(Thrown(o)))
         ELSE IF existing # {}
         THEN Answer(r, rq, Json(409, <<"Email already registered">>))
         ELSE Goto(r, [rq EXCEPT !.pc = "columns", !.hash = BcryptHash(rq.body.password)])
  /\ UNCHANGED <<schema, users, nextId, audit, env, cachedUserIdColumn, now,
                 ticks, issued, access, width, registered, loggedOut, written>>

\* Build insert columns dynamically to match schema.
InsertCols(available) ==
  (IF "email" \in available THEN <<"email">> ELSE <<>>)
  \o (IF "full_name" \in available /\ "name" \in available THEN <<"full_name", "name">>
      ELSE IF "full_name" \in available THEN <<"full_name">>
      ELSE IF "name" \in available THEN <<"name">>
      ELSE <<>>)
  \o (IF "password_hash" \in available THEN <<"password_hash">> ELSE <<>>)
  \o (IF "aadhaar_key" \in available THEN <<"aadhaar_key">> ELSE <<>>)

\* const nameValue = name || normalizedEmail.split('@')[0]
NameValue(rq) ==
  IF Truthy(rq.body.name) THEN rq.body.name ELSE Str(LocalPart(rq.email.v))

InsertValues(rq, available) ==
  (IF "email" \in available THEN <<rq.email>> ELSE <<>>)
  \o (IF "full_name" \in available /\ "name" \in available
      THEN <<NameValue(rq), NameValue(rq)>>
      ELSE IF "full_name" \in available THEN <<NameValue(rq)>>
      ELSE IF "name" \in available THEN <<NameValue(rq)>>
      ELSE <<>>)
  \o (IF "password_hash" \in available THEN <<rq.hash>> ELSE <<>>)
  \o (IF "aadhaar_key" \in available THEN <<RandomKey>> ELSE <<>>)

\* SELECT column_name ... FROM information_schema.columns, and the column
\* list of the INSERT
RegisterColumns(r, o) ==
  /\ req[r].op = "register" /\ req[r].pc = "columns"
  /\ faults' = Inject(o)
  /\ LET rq == Query(req[r], "SELECT columns", o)
         available == schema
     IN  IF o = "throw"
         THEN Answer(r, rq, RegisterCatch(ErrStore))
         ELSE IF Len(InsertCols(available)) = 0
         THEN Answer(r, rq, RegisterCatch(ErrNoColumns))
         ELSE Goto(r, [rq EXCEPT !.pc = "insert",
                                 !.insertCols = InsertCols(available),
                                 !.values = InsertValues(rq, available)])
  /\ UNCHANGED <<schema, users, nextId, audit, env, cachedUserIdColumn, now,
                 ticks, issued, access, width, registered, loggedOut, written>>

\* The row an INSERT INTO users (cols) VALUES (vals) creates.
InsertedRow(cols, vals) ==
  Row(nextId, ValueOf(cols, vals, "email"), ValueOf(cols, vals, "full_name"),
      ValueOf(cols, vals, "name"), ValueOf(cols, vals, "password_hash"),
      ValueOf(cols, vals, "aadhaar_key"), ValueOf(cols, vals, "contact_number"))

\* The unique index on users.email: a row with this email is there already.
EmailTaken(e) == e.t # "null" /\ \E u \in users : u.email = e

\* INSERT INTO users (...) VALUES (...), and the 201
RegisterInsert(r, o) ==
  /\ req[r].op = "register" /\ req[r].pc = "insert"
  /\ faults' = Inject(o)
  /\ LET rq == Query(req[r], "INSERT users", o)
         row == InsertedRow(rq.insertCols, rq.values)
     IN  IF Throws(Range(rq.insertCols), o)
         THEN /\ Answer(r, rq, RegisterCatch(Thrown(o)))
              /\ UNCHANGED <<users, nextId, registered, written>>
         ELSE IF EmailTaken(row.email)
         THEN /\ Answer(r, rq, RegisterCatch(ErrUnique))
              /\ UNCHANGED <<users, nextId, registered, written>>
         ELSE /\ users' = users \cup {row}
              /\ nextId' = nextId + 1
              /\ written' = (nextId :> NameValue(rq)) @@ written
              /\ registered' = registered \cup
                   {[uid |-> nextId, email |-> rq.email, password |-> rq.body.password]}
              /\ Answer(r, rq, Json(201, <<"Account created">>))
  /\ UNCHANGED <<schema, audit, env, cachedUserIdColumn, now, ticks, issued,
                 access, width, loggedOut>>

\* ------------------------------------------------------------ verifyToken
\* The Authorization header, as its segments between single spaces (<<>>:
\* no header).  A segment is a word, a JSON web token, or empty.
Word(w) == [text |-> w, tok |-> NoToken]
Jwt(t) == [text |-> "jwt", tok |-> t]
\* the same payload signed with another key
Forged(t) == [t EXCEPT !.sig = "other"]

TokenExpiredError ==
  [name |-> "TokenExpiredError", message |-> "jwt expired", code |-> "", detail |-> ""]
JsonWebTokenError(m) ==
  [name |-> "JsonWebTokenError", message |-> m, code |-> "", detail |-> ""]

\* jwt.verify(token, JWT_SECRET): the error it throws (NoError: it decodes)
JwtVerify(seg, at) ==
  IF seg.text # "jwt" THEN JsonWebTokenError("jwt malformed")
  ELSE IF seg.tok.sig # "secret" THEN JsonWebTokenError("invalid signature")
  ELSE IF at >= seg.tok.exp THEN TokenExpiredError
  ELSE NoError

\* a middleware that keeps a revocation list fed by logout
VerifyTokenRevoking(authHeader, at) ==
  IF authHeader = <<>>
  THEN Json(401, <<"No token provided. Please login first.">>)
  ELSE IF Len(authHeader) < 2 \/ authHeader[2].text = ""
  THEN Json(401, <<"Invalid token format">>)
  ELSE LET error == JwtVerify(authHeader[2], at) IN
       IF error = NoError /\ authHeader[2].tok \notin loggedOut THEN NoResp
       ELSE IF error.name = "TokenExpiredError"
       THEN Json(401, <<"Token expired. Please login again.">>)
       ELSE Json(401, <<"Invalid token: ", error.message>>)

\* verifyToken(req, res, next): what it answers, or, with status 0, that it
\* set req.user and called next().
VerifyToken(authHeader, at) ==
  IF authHeader = <<>>
  THEN Json(401, <<"No token provided. Please login first.">>)
  ELSE IF Len(authHeader) < 2 \/ authHeader[2].text = ""
  THEN Json(401, <<"Invalid token format">>)
  ELSE LET error == JwtVerify(authHeader[2], at) IN
       IF error = NoError THEN NoResp
       ELSE IF error.name = "TokenExpiredError"
       THEN Json(401, <<"Token expired. Please login again.">>)
       ELSE Json(401, <<"Invalid token: ", error.message>>)

\* The request after the middleware: req.user is the decoded payload.
Admitted(rq) ==
  [rq EXCEPT !.next = TRUE, !.user = rq.header[2].tok]

\* ------------------------------------------------- schema-adaptive helpers
\* catch (error) of login, getMe and updateProfile
GenericCatch == Json(500, <<"Internal server error">>)

\* getUserIdColumn: if (cachedUserIdColumn) return cachedUserIdColumn
AfterIdColumn(op) == IF op = "updateProfile" THEN "cols" ELSE "name"
WithIdColumn(rq) ==
  IF cachedUserIdColumn # ""
  THEN [rq EXCEPT !.idCol = cachedUserIdColumn, !.pc = AfterIdColumn(rq.op)]
  ELSE [rq EXCEPT !.pc = "idcol"]

\* a lookup that reports both names whatever the table has
IdColumnRowsUnfiltered == IdColumns

\* res.rows?.[0]?.column_name || 'user_id': the rows come in no stated order
IdColumnRows == IF schema \cap IdColumns = {} THEN {"user_id"} ELSE schema \cap IdColumns

\* getUserIdColumn: the catalog query and the write of the cache
GetUserIdColumn(r, o) ==
  /\ req[r].op \in {"login", "getMe", "updateProfile"} /\ req[r].pc = "idcol"
  /\ faults' = Inject(o)
  /\ LET rq == Query(req[r], "SELECT columns", o) IN
     IF o = "throw"
     THEN Answer(r, rq, GenericCatch) /\ UNCHANGED cachedUserIdColumn
     ELSE \E col \in IdColumnRows :
            /\ cachedUserIdColumn' = col
            /\ Goto(r, [rq EXCEPT !.idCol = col, !.pc = AfterIdColumn(rq.op)])
  /\ UNCHANGED <<schema, users, nextId, audit, env, now, ticks, issued, access, width, registered, loggedOut, written>>

\* getNameExpr
NameExpr(cols) ==
  IF "full_name" \in cols /\ "name" \in cols THEN "COALESCE(full_name, name)"
  ELSE IF "full_name" \in cols THEN "full_name"
  ELSE IF "name" \in cols THEN "name"
  ELSE "NULL"

\* the columns an expression reads, and its value in a row
ExprColumns(e) ==
  CASE e = "COALESCE(full_name, name)" -> {"full_name", "name"}
    [] e = "full_name" -> {"full_name"}
    [] e = "name" -> {"name"}
    [] e = "created_at" -> {"created_at"}
    [] OTHER -> {}
Eval(e, u) ==
  CASE e = "COALESCE(full_name, name)" ->
         IF u.full_name.t # "null" THEN u.full_name ELSE u.name
    [] e = "full_name" -> u.full_name
    [] e = "name" -> u.name
    [] OTHER -> Null

GetNameExpr(r, o) ==
  /\ req[r].op \in {"login", "getMe"} /\ req[r].pc = "name"
  /\ faults' = Inject(o)
  /\ LET rq == Query(req[r], "SELECT columns", o) IN
     IF o = "throw"
     THEN Answer(r, rq, GenericCatch)
     ELSE Goto(r, [rq EXCEPT !.nameExpr = NameExpr(schema \cap NameColumns),
                             !.pc = IF rq.op = "getMe" THEN "created" ELSE "select"])
  /\ UNCHANGED <<schema, users, nextId, audit, env, cachedUserIdColumn, now,
                 ticks, issued, access, width, registered, loggedOut, written>>

\* getCreatedAtExpr
GetCreatedAtExpr(r, o) ==
  /\ req[r].op = "getMe" /\ req[r].pc = "created"
  /\ faults' = Inject(o)
  /\ LET rq == Query(req[r], "SELECT columns", o) IN
     IF o = "throw"
     THEN Answer(r, rq, GenericCatch)
     ELSE Goto(r, [rq EXCEPT !.createdExpr =
                               IF "created_at" \in schema THEN "created_at" ELSE "NOW()",
                             !.pc = "select"])
  /\ UNCHANGED <<schema, users, nextId, audit, env, cachedUserIdColumn, now,
                 ticks, issued, access, width, registered, loggedOut, written>>

\* ------------------------------------------------------------------ login
LoginBodies ==
  [email : EmailInputs \ {Undef},
   password : PasswordInputs \ {Undef, ShortPassword}, name : {Undef}]
  \cup [email : {Undef}, password : {Secret}, name : {Undef}]
  \cup [email : {Str(<<"a", "@", "x">>)}, password : {Undef}, name : {Undef}]

LoginBegin(r, b, o) ==
  /\ Free(r)
  /\ LET rq == [Idle EXCEPT !.op = "login", !.body = b] IN
     IF ~Truthy(b.email) \/ ~Truthy(b.password)
     THEN Answer(r, rq, Json(400, <<"Email and password required">>))
          /\ faults' = faults
     ELSE LET rn == [rq EXCEPT !.email = ToLowerCase(b.email)] IN
          /\ faults' = Inject(o)
          /\ IF o = "throw"
             THEN Answer(r, Failed(rn), GenericCatch)
             ELSE Connect(r, WithIdColumn(rn), WithIdColumn(rn).pc)
  /\ UNCHANGED <<schema, users, nextId, audit, env, cachedUserIdColumn, now,
                 ticks, issued, access, width, registered, loggedOut, written>>

\* a comparison of the stored hash with the password itself
BcryptComparePlain(password, hash) ==
  IF password.t # "string" \/ hash.t # "string" THEN "throw"
  ELSE IF hash = password THEN "true"
  ELSE "false"

\* bcrypt.compare(password, hash): "throw" for a password that is no string
BcryptCompare(password, hash) ==
  IF password.t # "string" \/ hash.t # "string" THEN "throw"
  ELSE IF hash = BcryptHash(password) THEN "true"
  ELSE "false"

\* login signing its token with the legacy controller's lifetime
LoginAnswerLegacyLifetime(rq, user) ==
  LET ok == IF Truthy(user.password_hash)
            THEN BcryptCompare(rq.body.password, user.password_hash)
            ELSE "false"
  IN  IF ok = "throw" THEN GenericCatch
      ELSE IF ok = "false" THEN Json(401, <<"Invalid credentials">>)
      ELSE [NoResp EXCEPT !.status = 200, !.keys = {"success", "token"},
                          !.token = JwtSign(user.uid, now, LegacyExpiresIn)]

\* What login answers with the row it found.
LoginAnswer(rq, user) ==
  LET ok == IF Truthy(user.password_hash)
            THEN BcryptCompare(rq.body.password, user.password_hash)
            ELSE "false"
  IN  IF ok = "throw" THEN GenericCatch
      ELSE IF ok = "false" THEN Json(401, <<"Invalid credentials">>)
      ELSE [NoResp EXCEPT !.status = 200, !.keys = {"success", "token"},
                          !.token = JwtSign(user.uid, now, ExpiresIn)]

\* SELECT idCol AS uid, email, nameExpr AS name, password_hash FROM users
\* WHERE email = $1, then the password check and the token
LoginSelect(r, o) ==
  /\ req[r].op = "login" /\ req[r].pc = "select"
  /\ faults' = Inject(o)
  /\ LET rq == Query(req[r], "SELECT users", o)
         rows == {u \in users : u.email = rq.email}
     IN  IF Throws({rq.idCol, "email", "password_hash"} \cup ExprColumns(rq.nameExpr), o)
         THEN Answer(r, rq, GenericCatch)
         ELSE IF rows = {}
         THEN Answer(r, rq, Json(401, <<"Invalid credentials">>))
         ELSE \E user \in rows : Answer(r, rq, LoginAnswer(rq, user))
  /\ UNCHANGED <<schema, users, nextId, audit, env, cachedUserIdColumn, now,
                 ticks, issued, access, width, registered, loggedOut, written>>

\* ------------------------------------------------------------------ getMe
GetMeBegin(r, h, o) ==
  /\ Free(r)
  /\ LET rq == [Idle EXCEPT !.op = "getMe", !.header = h, !.at = now]
         gate == VerifyToken(h, now)
     IN  IF gate # NoResp
         THEN Answer(r, rq, gate) /\ faults' = faults
         ELSE IF Admitted(rq).user.userId = 0
         THEN Answer(r, Admitted(rq), Json(401, <<"Unauthorized">>)) /\ faults' = faults
         ELSE /\ faults' = Inject(o)
              /\ IF o = "throw"
                 THEN Answer(r, Failed(Admitted(rq)), GenericCatch)
                 ELSE Connect(r, WithIdColumn(Admitted(rq)), WithIdColumn(Admitted(rq)).pc)
  /\ UNCHANGED <<schema, users, nextId, audit, env, cachedUserIdColumn, now,
                 ticks, issued, access, width, registered, loggedOut, written>>

\* SELECT idCol AS uid, email, nameExpr AS name, createdExpr AS created_at
\* FROM users WHERE idCol = $1
GetMeSelect(r, o) ==
  /\ req[r].op = "getMe" /\ req[r].pc = "select"
  /\ faults' = Inject(o)
  /\ LET rq == Query(req[r], "SELECT users", o)
         rows == {u \in users : u.uid = rq.user.userId}
     IN  IF Throws({rq.idCol, "email"} \cup ExprColumns(rq.nameExpr)
                   \cup ExprColumns(rq.createdExpr), o)
         THEN Answer(r, rq, GenericCatch)
         ELSE IF rows = {}
         THEN Answer(r, rq, Json(404, <<"User not found">>))
         ELSE \E u \in rows :
                Answer(r, rq, [NoResp EXCEPT !.status = 200, !.keys = {"success", "user"},
                                  !.user = [id |-> u.uid, email |-> u.email,
                                            name |-> Eval(rq.nameExpr, u)]])
  /\ UNCHANGED <<schema, users, nextId, audit, env, cachedUserIdColumn, now,
                 ticks, issued, access, width, registered, loggedOut, written>>

\* -------------------------------------------------- logout, verifyAadhaar
Acknowledge(r, op, h, m) ==
  /\ Free(r)
  /\ LET rq == [Idle EXCEPT !.op = op, !.header = h, !.at = now]
         gate == VerifyToken(h, now)
     IN  IF gate # NoResp
         THEN Answer(r, rq, gate) /\ loggedOut' = loggedOut
         ELSE /\ Answer(r, Admitted(rq), Json(200, m))
              /\ loggedOut' = IF op = "logout" THEN loggedOut \cup {Admitted(rq).user}
                                               ELSE loggedOut
  /\ UNCHANGED <<schema, users, nextId, audit, env, cachedUserIdColumn, now,
                 ticks, issued, access, width, faults, registered, written>>
Logout(r, h) == Acknowledge(r, "logout", h, <<"Logged out">>)
VerifyAadhaar(r, h) == Acknowledge(r, "verifyAadhaar", h, <<"Aadhaar verified (stub)">>)

\* ---------------------------------------------------------- updateProfile
ProfileNames == {Undef, Str(<<"Z", "o">>), Num(<<"7">>)}

UpdateProfileBegin(r, h, name, o) ==
  /\ Free(r)
  /\ LET rq == [Idle EXCEPT !.op = "updateProfile", !.header = h, !.at = now,
                            !.body.name = name]
         gate == VerifyToken(h, now)
     IN  IF gate # NoResp
         THEN Answer(r, rq, gate) /\ faults' = faults
         ELSE IF Admitted(rq).user.userId = 0
         THEN Answer(r, Admitted(rq), Json(401, <<"Unauthorized">>)) /\ faults' = faults
         ELSE IF ~Truthy(name) \/ name.t # "string"
         THEN Answer(r, Admitted(rq), Json(400, <<"Name is required">>)) /\ faults' = faults
         ELSE /\ faults' = Inject(o)
              /\ IF o = "throw"
                 THEN Answer(r, Failed(Admitted(rq)), GenericCatch)
                 ELSE Connect(r, WithIdColumn(Admitted(rq)), WithIdColumn(Admitted(rq)).pc)
  /\ UNCHANGED <<schema, users, nextId, audit, env, cachedUserIdColumn, now,
                 ticks, issued, access, width, registered, loggedOut, written>>

\* if (!cols.size): what updateProfile answers when the table has neither
\* name column
NoNameColumn == Json(400, <<"No updatable name column found">>)

\* SELECT column_name ... IN ('full_name','name'), and the SET list
UpdateProfileCols(r, o) ==
  /\ req[r].op = "updateProfile" /\ req[r].pc = "cols"
  /\ faults' = Inject(o)
  /\ LET rq == Query(req[r], "SELECT columns", o)
         cols == schema \cap NameColumns
     IN  IF o = "throw"
         THEN Answer(r, rq, GenericCatch)
         ELSE IF cols = {}
         THEN Answer(r, rq, NoNameColumn)
         ELSE Goto(r, [rq EXCEPT !.pc = "update",
                         !.insertCols = (IF "full_name" \in cols THEN <<"full_name">> ELSE <<>>)
                                        \o (IF "name" \in cols THEN <<"name">> ELSE <<>>),
                         !.values = (IF "full_name" \in cols THEN <<rq.body.name>> ELSE <<>>)
                                    \o (IF "name" \in cols THEN <<rq.body.name>> ELSE <<>>)])
  /\ UNCHANGED <<schema, users, nextId, audit, env, cachedUserIdColumn, now,
                 ticks, issued, access, width, registered, loggedOut, written>>

\* an UPDATE that sets full_name alone
UpdatedFullNameOnly(u, cols, vals) ==
  [u EXCEPT !.full_name = IF "full_name" \in Range(cols)
                          THEN ValueOf(cols, vals, "full_name") ELSE @]

\* The row after UPDATE users SET cols = vals
Updated(u, cols, vals) ==
  [u EXCEPT !.full_name = IF "full_name" \in Range(cols)
                          THEN ValueOf(cols, vals, "full_name") ELSE @,
            !.name = IF "name" \in Range(cols) THEN ValueOf(cols, vals, "name") ELSE @]

\* UPDATE users SET ... WHERE idCol = $n
UpdateProfileExec(r, o) ==
  /\ req[r].op = "updateProfile" /\ req[r].pc = "update"
  /\ faults' = Inject(o)
  /\ LET rq == Query(req[r], "UPDATE users", o) IN
     IF Throws({rq.idCol} \cup Range(rq.insertCols), o)
     THEN Answer(r, rq, GenericCatch) /\ users' = users /\ written' = written
     ELSE /\ users' = {IF u.uid = rq.user.userId
                       THEN Updated(u, rq.insertCols, rq.values) ELSE u : u \in users}
          /\ written' = [i \in DOMAIN written |->
                           IF i = rq.user.userId THEN rq.body.name ELSE written[i]]
          /\ Answer(r, rq, [Json(200, <<"Profile updated">>)
                              EXCEPT !.keys = {"success", "message", "name"}])
  /\ UNCHANGED <<schema, nextId, audit, env, cachedUserIdColumn, now, ticks,
                 issued, access, width, registered, loggedOut>>

\* ------------------------------------------------- room verify-access
\* The three tables the route joins.  Times are in seconds.
Rooms == {[room_id |-> 1, qr_code_id |-> "q1"], [room_id |-> 2, qr_code_id |-> "q2"]}
BookingInputs ==
  {[booking_id |-> 1, user_id |-> 1, room_id |-> 1, check_in_time |-> 1,
    check_out_time |-> ExpiresIn],
   [booking_id |-> 2, user_id |-> 2, room_id |-> 2, check_in_time |-> 0,
    check_out_time |-> 1]}
BookingTokenInputs ==
  {[token_id |-> 1, booking_id |-> 1, is_valid |-> TRUE, digital_signature |-> "s1"],
   [token_id |-> 2, booking_id |-> 1, is_valid |-> FALSE, digital_signature |-> "s2"],
   [token_id |-> 3, booking_id |-> 2, is_valid |-> TRUE, digital_signature |-> "s3"]}
AccessInputs ==
  [bookings : SUBSET BookingInputs, rooms : {Rooms}, booking_tokens : SUBSET BookingTokenInputs]
NoAccess == [bookings |-> {}, rooms |-> {}, booking_tokens |-> {}]

\* the validation of the body, then await pool.connect()
VerifyAccessBegin(r, uid, qr, o) ==
  /\ Free(r)
  /\ LET rq == [Idle EXCEPT !.op = "verifyAccess", !.user_id = uid, !.qr_code_id = qr] IN
     IF uid = 0 \/ qr = ""
     THEN Answer(r, rq, Json(400, <<"User ID and QR Code ID required">>))
          /\ faults' = faults
     ELSE /\ faults' = Inject(o)
          /\ IF o = "throw"
             THEN Answer(r, Failed(rq), Json(500, <<ErrStore.message>>))
             ELSE Connect(r, rq, "select")
  /\ UNCHANGED <<schema, users, nextId, audit, env, cachedUserIdColumn, now,
                 ticks, issued, access, width, registered, loggedOut, written>>

\* the join without its bt.is_valid = true
AccessRowsAnyToken(uid, qr, at) ==
  {<<b, rm, bt>> \in access.bookings \X access.rooms \X access.booking_tokens :
     /\ b.room_id = rm.room_id /\ b.booking_id = bt.booking_id
     /\ b.user_id = uid /\ rm.qr_code_id = qr
     /\ b.check_in_time <= at /\ at <= b.check_out_time}

\* SELECT ... FROM bookings b JOIN rooms r ON b.room_id = r.room_id
\* JOIN booking_tokens bt ON b.booking_id = bt.booking_id
\* WHERE b.user_id = $1 AND r.qr_code_id = $2 AND bt.is_valid = true
\* AND b.check_in_time <= NOW() AND NOW() <= b.check_out_time
AccessRows(uid, qr, at) ==
  {<<b, rm, bt>> \in access.bookings \X access.rooms \X access.booking_tokens :
     /\ b.room_id = rm.room_id /\ b.booking_id = bt.booking_id
     /\ b.user_id = uid /\ rm.qr_code_id = qr /\ bt.is_valid
     /\ b.check_in_time <= at /\ at <= b.check_out_time}

VerifyAccessSelect(r, o) ==
  /\ req[r].op = "verifyAccess" /\ req[r].pc = "select"
  /\ faults' = Inject(o)
  /\ LET rq == [Query(req[r], "SELECT bookings", o) EXCEPT !.at = now]
         rows == AccessRows(rq.user_id, rq.qr_code_id, now)
     IN  IF o = "throw"
         THEN Answer(r, rq, Json(500, <<ErrStore.message>>))
         ELSE IF rows = {}
         THEN Answer(r, rq, Json(403, <<"Verification failed. Invalid or expired booking.">>))
         ELSE \E booking \in rows :
                Answer(r, rq, [Json(200, <<"Access granted!">>) EXCEPT
                                 !.booking_token = booking[3].token_id,
                                 !.digital_signature = booking[3].digital_signature,
                                 !.keys = @ \cup {"booking_token", "digital_signature"}])
  /\ UNCHANGED <<schema, users, nextId, audit, env, cachedUserIdColumn, now,
                 ticks, issued, access, width, registered, loggedOut, written>>

\* ------------------------------------------------------ legacy controller
\* catch (error) of the legacy handlers and of the routes of server.js
ServerError(error) == Json(500, <<"Server error: ", error.message>>)
RouteError(error) == Json(500, <<error.message>>)

LegacyBodies ==
  {[email |-> Str(<<"a", "@", "x">>), name |-> Str(<<"B", "o">>),
    aadhaar_key |-> Str(<<"k">>), contact_number |-> Str(<<"9">>)],
   [email |-> Str(<<"A", "@", "X">>), name |-> Str(<<"B", "o">>),
    aadhaar_key |-> Str(<<"j">>), contact_number |-> Str(<<"8">>)],
   [email |-> Undef, name |-> Str(<<"B", "o">>),
    aadhaar_key |-> Str(<<"k">>), contact_number |-> Str(<<"9">>)]}

\* exports.register: the validation, then await pool.connect()
LegacyRegisterBegin(r, b, o) ==
  /\ Free(r)
  /\ LET rq == [Idle EXCEPT !.op = "legacyRegister", !.body.email = b.email,
                            !.body.name = b.name, !.aadhaar_key = b.aadhaar_key,
                            !.contact_number = b.contact_number]
     IN  IF ~Truthy(b.aadhaar_key) \/ ~Truthy(b.name) \/ ~Truthy(b.contact_number)
            \/ ~Truthy(b.email)
         THEN Answer(r, rq, Json(400, <<"All fields required: aadhaar_key, full_name, contact_number, email">>))
              /\ faults' = faults
         ELSE /\ faults' = Inject(o)
              /\ IF o = "throw"
                 THEN Answer(r, Failed(rq), ServerError(ErrStore))
                 ELSE Connect(r, rq, "aadhaar")
  /\ UNCHANGED <<schema, users, nextId, audit, env, cachedUserIdColumn, now,
                 ticks, issued, access, width, registered, loggedOut, written>>

\* SELECT * FROM users WHERE aadhaar_key = $1
LegacyCheckAadhaar(r, o) ==
  /\ req[r].op = "legacyRegister" /\ req[r].pc = "aadhaar"
  /\ faults' = Inject(o)
  /\ LET rq == Query(req[r], "SELECT users", o) IN
     IF Throws({"aadhaar_key"}, o) THEN Answer(r, rq, ServerError(Thrown(o)))
     ELSE IF \E u \in users : u.aadhaar_key = rq.aadhaar_key
     THEN Answer(r, rq, Json(400, <<"Aadhaar key already registered">>))
     ELSE Goto(r, [rq EXCEPT !.pc = "contact"])
  /\ UNCHANGED <<schema, users, nextId, audit, env, cachedUserIdColumn, now,
                 ticks, issued, access, width, registered, loggedOut, written>>

\* SELECT * FROM users WHERE contact_number = $1
LegacyCheckContact(r, o) ==
  /\ req[r].op = "legacyRegister" /\ req[r].pc = "contact"
  /\ faults' = Inject(o)
  /\ LET rq == Query(req[r], "SELECT users", o) IN
     IF Throws({"contact_number"}, o) THEN Answer(r, rq, ServerError(Thrown(o)))
     ELSE IF \E u \in users : u.contact_number = rq.contact_number
     THEN Answer(r, rq, Json(400, <<"Contact number already registered">>))
     ELSE Goto(r, [rq EXCEPT !.pc = "insert"])
  /\ UNCHANGED <<schema, users, nextId, audit, env, cachedUserIdColumn, now,
                 ticks, issued, access, width, registered, loggedOut, written>>

\* newUser.user_id: undefined (0) on a table without that column
UserIdOf(u) == IF "user_id" \in schema THEN u.uid ELSE 0

\* res.status(201).json({ success, message, token, user }) and the like
LegacyGranted(s, u) ==
  [NoResp EXCEPT !.status = s, !.message = <<"successful">>,
                 !.keys = {"success", "message", "token", "user"},
                 !.token = JwtSign(UserIdOf(u), now, LegacyExpiresIn),
                 !.user = [id |-> UserIdOf(u), email |-> u.email, name |-> u.full_name]]

\* INSERT INTO users (aadhaar_key, full_name, contact_number, email)
\* VALUES (...) RETURNING *, then the token and the 201
LegacyInsert(r, o) ==
  /\ req[r].op = "legacyRegister" /\ req[r].pc = "insert"
  /\ faults' = Inject(o)
  /\ LET rq == Query(req[r], "INSERT users", o)
         newUser == Row(nextId, rq.body.email, rq.body.name, Null, Null,
                        rq.aadhaar_key, rq.contact_number)
     IN  IF Throws({"aadhaar_key", "full_name", "contact_number", "email"}, o)
         THEN Answer(r, rq, ServerError(Thrown(o))) /\ UNCHANGED <<users, nextId, written>>
         ELSE IF EmailTaken(newUser.email)
         THEN Answer(r, rq, ServerError(ErrUnique)) /\ UNCHANGED <<users, nextId, written>>
         ELSE /\ users' = users \cup {newUser}
              /\ nextId' = nextId + 1
              /\ written' = (nextId :> rq.body.name) @@ written
              /\ Answer(r, rq, LegacyGranted(201, newUser))
  /\ UNCHANGED <<schema, audit, env, cachedUserIdColumn, now, ticks, issued,
                 access, width, registered, loggedOut>>

\* exports.login: the validation, then await pool.connect()
LegacyLoginBegin(r, b, o) ==
  /\ Free(r)
  /\ LET rq == [Idle EXCEPT !.op = "legacyLogin", !.aadhaar_key = b.aadhaar_key,
                            !.contact_number = b.contact_number]
     IN  IF ~Truthy(b.aadhaar_key) \/ ~Truthy(b.contact_number)
         THEN Answer(r, rq, Json(400, <<"Aadhaar key and contact number required">>))
              /\ faults' = faults
         ELSE /\ faults' = Inject(o)
              /\ IF o = "throw"
                 THEN Answer(r, Failed(rq), ServerError(ErrStore))
                 ELSE Connect(r, rq, "select")
  /\ UNCHANGED <<schema, users, nextId, audit, env, cachedUserIdColumn, now,
                 ticks, issued, access, width, registered, loggedOut, written>>

\* SELECT * FROM users WHERE aadhaar_key = $1 AND contact_number = $2, and
\* the token
LegacyLoginSelect(r, o) ==
  /\ req[r].op = "legacyLogin" /\ req[r].pc = "select"
  /\ faults' = Inject(o)
  /\ LET rq == Query(req[r], "SELECT users", o)
         rows == {u \in users : u.aadhaar_key = rq.aadhaar_key
                                /\ u.contact_number = rq.contact_number}
     IN  IF Throws({"aadhaar_key", "contact_number"}, o)
         THEN Answer(r, rq, ServerError(Thrown(o)))
         ELSE IF rows = {}
         THEN Answer(r, rq, Json(401, <<"Invalid credentials">>))
         ELSE \E u \in rows :
                Goto(r, [rq EXCEPT !.pc = "audit", !.user_id = UserIdOf(u),
                                   !.resp = LegacyGranted(200, u)])
  /\ UNCHANGED <<schema, users, nextId, audit, env, cachedUserIdColumn, now,
                 ticks, issued, access, width, registered, loggedOut, written>>

\* exports.logout, behind verifyToken
LegacyLogoutBegin(r, h, o) ==
  /\ Free(r)
  /\ LET rq == [Idle EXCEPT !.op = "legacyLogout", !.header = h, !.at = now]
         gate == VerifyToken(h, now)
     IN  IF gate # NoResp
         THEN Answer(r, rq, gate) /\ faults' = faults
         ELSE /\ faults' = Inject(o)
              /\ IF o = "throw"
                 THEN Answer(r, Failed(Admitted(rq)), ServerError(ErrStore))
                 ELSE Connect(r, [Admitted(rq) EXCEPT
                                    !.user_id = Admitted(rq).user.userId,
                                    !.resp = Json(200, <<"Logged out successfully!">>)],
                              "audit")
  /\ UNCHANGED <<schema, users, nextId, audit, env, cachedUserIdColumn, now,
                 ticks, issued, access, width, registered, loggedOut, written>>

\* INSERT INTO audit_logs (user_id, action_type, details) VALUES (...), and
\* the answer prepared before it
LegacyAudit(r, o) ==
  /\ req[r].op \in {"legacyLogin", "legacyLogout"} /\ req[r].pc = "audit"
  /\ faults' = Inject(o)
  /\ LET rq == Query(req[r], "INSERT audit_logs", o) IN
     IF Throws({"audit_logs"}, o)
     THEN Answer(r, rq, ServerError(Thrown(o))) /\ audit' = audit
     ELSE /\ audit' = audit \cup
               {[user_id |-> rq.user_id,
                 action_type |-> IF rq.op = "legacyLogin" THEN "LOGIN" ELSE "LOGOUT"]}
          /\ Answer(r, rq, rq.resp)
  /\ UNCHANGED <<schema, users, nextId, env, cachedUserIdColumn, now, ticks,
                 issued, access, width, registered, loggedOut, written>>

\* exports.getMe, behind verifyToken
LegacyGetMeBegin(r, h, o) ==
  /\ Free(r)
  /\ LET rq == [Idle EXCEPT !.op = "legacyGetMe", !.header = h, !.at = now]
         gate == VerifyToken(h, now)
     IN  IF gate # NoResp
         THEN Answer(r, rq, gate) /\ faults' = faults
         ELSE /\ faults' = Inject(o)
              /\ IF o = "throw"
                 THEN Answer(r, Failed(Admitted(rq)), ServerError(ErrStore))
                 ELSE Connect(r, Admitted(rq), "select")
  /\ UNCHANGED <<schema, users, nextId, audit, env, cachedUserIdColumn, now,
                 ticks, issued, access, width, registered, loggedOut, written>>

\* SELECT user_id, full_name, contact_number, email FROM users
\* WHERE user_id = $1
LegacyGetMeSelect(r, o) ==
  /\ req[r].op = "legacyGetMe" /\ req[r].pc = "select"
  /\ faults' = Inject(o)
  /\ LET rq == Query(req[r], "SELECT users", o)
         rows == {u \in users : u.uid = rq.user.userId}
     IN  IF Throws({"user_id", "full_name", "contact_number", "email"}, o)
         THEN Answer(r, rq, ServerError(Thrown(o)))
         ELSE IF rows = {}
         THEN Answer(r, rq, Json(404, <<"User not found">>))
         ELSE \E u \in rows :
                Answer(r, rq, [NoResp EXCEPT !.status = 200, !.keys = {"success", "user"},
                                  !.user = [id |-> u.uid, email |-> u.email,
                                            name |-> u.full_name]])
  /\ UNCHANGED <<schema, users, nextId, audit, env, cachedUserIdColumn, now,
                 ticks, issued, access, width, registered, loggedOut, written>>

\* ------------------------------------------------- listing routes
\* GET /api/test/users, /api/test/hotels, /api/test/rooms, /api/test/bookings,
\* /api/hotels, /api/rooms, /api/offers: const client = await pool.connect()
ListRoutes ==
  {"test/users", "test/hotels", "test/rooms", "test/bookings", "hotels", "rooms", "offers"}
ListBegin(r, route, o) ==
  /\ Free(r)
  /\ faults' = Inject(o)
  /\ LET rq == [Idle EXCEPT !.op = route] IN
     IF o = "throw"
     THEN Answer(r, Failed(rq), RouteError(ErrStore))
     ELSE Connect(r, rq, "select")
  /\ UNCHANGED <<schema, users, nextId, audit, env, cachedUserIdColumn, now,
                 ticks, issued, access, width, registered, loggedOut, written>>

\* try { client.query('SELECT * FROM ...'); res.json(...) }
\* finally { client.release() }
ListSelect(r, o) ==
  /\ req[r].op \in ListRoutes /\ req[r].pc = "select"
  /\ faults' = Inject(o)
  /\ LET rq == Query(req[r], "SELECT " \o req[r].op, o) IN
     IF o = "throw"
     THEN Answer(r, rq, RouteError(ErrStore))
     ELSE Answer(r, rq, [NoResp EXCEPT !.status = 200, !.keys = {"success", "rows"}])
  /\ UNCHANGED <<schema, users, nextId, audit, env, cachedUserIdColumn, now,
                 ticks, issued, access, width, registered, loggedOut, written>>

\* ------------------------------------------------------------ ensureSchema
\* CREATE TABLE IF NOT EXISTS users (...)
EnsuredTable == {"user_id", "email", "name", "password_hash", "created_at"}
\* The table after the first k statements of ensureSchema went through.
Ensured(k) ==
  LET s1 == IF schema \cap Columns = {} THEN schema \cup EnsuredTable ELSE schema
      s2 == s1 \cup {"password_hash"}
      s3 == s2 \cup {"name"}
  IN  CASE k = 0 -> schema [] k = 1 -> s1 [] k = 2 -> s2 [] OTHER -> s3

\* node server.js: ensureSchema().finally(() => app.listen(...)).  A
\* statement that throws ends ensureSchema with the earlier ones applied.
\* When pool.connect itself is refused (k = 0) ensureSchema rejects: the
\* server listens, or the process ends on the unhandled rejection and is
\* started again.
EnsureSchema(o, k) ==
  /\ width = 0
  /\ faults' = Inject(o)
  /\ schema' = IF o = "throw" THEN Ensured(k) ELSE Ensured(4)
  /\ width' \in (IF o = "throw" /\ k = 0 THEN {0, MaxReq} ELSE {MaxReq})
  /\ UNCHANGED <<users, nextId, audit, env, cachedUserIdColumn, req, pool, now,
                 ticks, issued, access, registered, loggedOut, written>>

\* The app is imported (require.main !== module): no ensureSchema.
Serverless ==
  /\ width = 0
  /\ width' = MaxReq
  /\ UNCHANGED <<schema, users, nextId, audit, env, cachedUserIdColumn, req, pool,
                 faults, now, ticks, issued, access, registered, loggedOut, written>>

\* ------------------------------------------------------ clients, the clock
\* The client reads the answer; it keeps a token it was given while it has
\* room for one.
Retire(r) ==
  /\ req[r].pc = "done"
  /\ req' = [req EXCEPT ![r] = Idle]
  /\ issued' = IF req[r].resp.token # NoToken /\ Cardinality(issued) < MaxTokens
               THEN issued \cup {req[r].resp.token} ELSE issued
  /\ UNCHANGED <<schema, users, nextId, audit, env, cachedUserIdColumn, pool,
                 faults, now, ticks, access, width, registered, loggedOut, written>>

\* Time passes: a second, or a second less than the token lifetime.
TickSteps == {1, ExpiresIn - 1}
Tick(d) ==
  /\ ticks < MaxTicks
  /\ now' = now + d
  /\ ticks' = ticks + 1
  /\ UNCHANGED <<schema, users, nextId, audit, env, cachedUserIdColumn, req,
                 pool, faults, issued, access, width, registered, loggedOut, written>>

\* The Authorization headers a client may send with the tokens it holds.
Garbage == [text |-> "garbage", tok |-> NoToken]
HeaderInputs ==
  {<<>>, <<Word("Bearer")>>, <<Word("Bearer"), Garbage>>}
  \cup {<<Word("Bearer"), Jwt(t)>> : t \in issued}
  \cup {<<Word("Basic"), Jwt(t)>> : t \in issued}
  \cup {<<Word("Bearer"), Jwt(Forged(t))>> : t \in issued}
  \cup {<<Word("Bearer"), Word(""), Jwt(t)>> : t \in issued}

\* ------------------------------------------------------- initial states
\* The process starts with an empty cache, no request in flight and every
\* connection in the pool; the users table has the shape the deployment
\* gave it.
Start(shapes, envs, joins, lanes) ==
  /\ schema \in shapes
  /\ users = {}
  /\ nextId = 1
  /\ audit = {}
  /\ env \in envs
  /\ cachedUserIdColumn = ""
  /\ req = [r \in Slots |-> Idle]
  /\ pool = [out |-> 0]
  /\ faults = 0
  /\ now = 0
  /\ ticks = 0
  /\ issued = {}
  /\ access \in joins
  /\ width = lanes
  /\ registered = {}
  /\ loggedOut = {}
  /\ written = <<>>

\* ------------------------------------------- specification: registration
\* Concurrent register requests over every shape of the users table.
RegisterShapes == {s \cup {"user_id"} : s \in SUBSET InsertableColumns}
InitRegister == Start(RegisterShapes, {"production"}, {NoAccess}, MaxReq)
NextRegister ==
  \/ \E r \in Slots, b \in RegisterBodies, o \in Outcomes : RegisterBegin(r, b, o)
  \/ \E r \in Slots, o \in Outcomes : RegisterExists(r, o)
  \/ \E r \in Slots, o \in Outcomes : RegisterColumns(r, o)
  \/ \E r \in Slots, o \in Outcomes : RegisterInsert(r, o)
SpecRegister == InitRegister /\ [][NextRegister]_vars

\* ------------------------------------------------------------ C1
ValidRegister(rq) == rq.op = "register" /\ RegisterValidation(rq.body) = <<>>
RaceRegisters == {r \in Slots : ValidRegister(req[r])}
SameEmail(S) ==
  \A r, q \in S : ToLowerCase(req[r].body.email) = ToLowerCase(req[q].body.email)
RaceOver(S) == S # {} /\ \A r \in S : req[r].pc = "done" /\ ~req[r].faulted
Conflict(resp) == resp.status = 409 /\ resp.message = <<"Email already registered">>

\* C1: when every one of the N >= 1 register requests for one email (up to
\* letter case) has answered, and the users table has its email column
\* (with the unique index), whatever the interleaving of their steps exactly
\* one got the 201, every other one got the 409 'Email already registered',
\* none got a 500, and the table holds exactly one row for the lowercased
\* email.
C1_OneSuccessRestConflict ==
  ("email" \in schema /\ RaceOver(RaceRegisters) /\ SameEmail(RaceRegisters)) =>
    /\ Cardinality({r \in RaceRegisters : req[r].resp.status = 201}) = 1
    /\ \A r \in RaceRegisters : req[r].resp.status = 201 \/ Conflict(req[r].resp)
    /\ \A r \in RaceRegisters :
         Cardinality({u \in users : u.email = ToLowerCase(req[r].body.email)}) = 1

\* Two requests, one in each letter case, both passed the pre-check; the
\* loser was refused by the unique index at its INSERT.
C1_Witness ==
  /\ "email" \in schema /\ RaceOver(RaceRegisters)
  /\ \E r, q \in RaceRegisters :
       /\ req[r].body.email # req[q].body.email
       /\ req[r].resp.status = 201
       /\ Conflict(req[q].resp) /\ Len(req[q].sql) = 3

\* ------------------------------------------------------------ C6
\* C6: a register request whose body fails the validation (email or
\* password missing, password not a string or shorter than 6 characters)
\* is answered 400 in the step that takes it, and that step acquires no
\* connection, issues no statement and leaves the users table as it was.
C6_InvalidRegisterTouchesNothing ==
  [][\A r \in Slots :
       (req[r].pc = "idle" /\ req'[r].op = "register"
        /\ (\/ ~Truthy(req'[r].body.email)
            \/ ~Truthy(req'[r].body.password)
            \/ req'[r].body.password.t # "string"
            \/ Len(req'[r].body.password.v) < 6))
       => /\ req'[r].pc = "done" /\ req'[r].resp.status = 400
          /\ ~req'[r].client /\ req'[r].sql = <<>>
          /\ pool' = pool /\ users' = users /\ nextId' = nextId]_vars

\* A 5-character password was refused while another request held a
\* connection.
C6_Witness ==
  \E r \in Slots :
    /\ req[r].op = "register" /\ req[r].pc = "done"
    /\ req[r].body.password = ShortPassword
    /\ req[r].resp.status = 400
    /\ pool.out > 0

\* ------------------------------------- specification: register, then login
\* One request at a time, over every shape of the users table that has the
\* email column and an identifier column.
LoginShapes ==
  {{"email"} \cup opt \cup ids :
     opt \in SUBSET {"full_name", "name", "password_hash", "aadhaar_key"},
     ids \in {{"id"}, {"user_id"}, {"id", "user_id"}}}
InitLogin == Start(LoginShapes, {"production"}, {NoAccess}, 1)
NextLogin ==
  \/ \E r \in Slots, b \in RegisterBodies, o \in Outcomes : RegisterBegin(r, b, o)
  \/ \E r \in Slots, o \in Outcomes : RegisterExists(r, o)
  \/ \E r \in Slots, o \in Outcomes : RegisterColumns(r, o)
  \/ \E r \in Slots, o \in Outcomes : RegisterInsert(r, o)
  \/ \E r \in Slots, b \in LoginBodies, o \in Outcomes : LoginBegin(r, b, o)
  \/ \E r \in Slots, o \in Outcomes : GetUserIdColumn(r, o)
  \/ \E r \in Slots, o \in Outcomes : GetNameExpr(r, o)
  \/ \E r \in Slots, o \in Outcomes : LoginSelect(r, o)
  \/ \E r \in Slots : Retire(r)
SpecLogin == InitLogin /\ [][NextLogin]_vars

\* ------------------------------------------------------------ C4
\* A login that got past the validation, met no store failure and whose
\* SELECT names only columns the table has.
LoginDecided(rq) ==
  /\ rq.op = "login" /\ rq.pc = "done" /\ ~rq.faulted
  /\ Truthy(rq.body.email) /\ Truthy(rq.body.password)
  /\ {rq.idCol, "email", "password_hash"} \subseteq schema
InvalidCredentials == Json(401, <<"Invalid credentials">>)

\* C4: every login that does not succeed is answered with the one 401
\* 'Invalid credentials' response, whether the email is unknown, its stored
\* hash is unset or the password is not the registered one: the answer does
\* not tell the caller whether the user exists.
C4_LoginFailuresIndistinguishable ==
  \A r \in Slots :
    (LoginDecided(req[r]) /\ req[r].resp.status # 200) => req[r].resp = InvalidCredentials

\* The same request is answered 401 when no row has the email.
C4_UnknownEmailIs401 ==
  \A r \in Slots :
    (LoginDecided(req[r]) /\ ~\E u \in users : u.email = req[r].email)
      => req[r].resp = InvalidCredentials

\* ------------------------------------------------------------ C5
\* The registration, if any, that created the account a login names with
\* the password it gives.
RegistrationOf(rq) ==
  {g \in registered : g.email = ToLowerCase(rq.body.email) /\ g.password = rq.body.password}
LoginAfterRegister(rq) ==
  /\ rq.op = "login" /\ rq.pc = "done" /\ ~rq.faulted
  /\ Truthy(rq.body.email)
  /\ RegistrationOf(rq) # {}
LoggedInAs(resp, uid) ==
  resp.status = 200 /\ resp.token.sig = "secret" /\ resp.token.userId = uid

\* C5 as amended: over every shape of the users table that has the
\* password_hash column (any subset of full_name, name, aadhaar_key; the
\* identifier column id, user_id or both), a login after a successful
\* register, with any case-variant of its email and the same password, is
\* answered 200 with a token whose userId is the identifier of the row that
\* registration created.
C5_LoginAfterRegisterWithHashColumn ==
  \A r \in Slots :
    (LoginAfterRegister(req[r]) /\ "password_hash" \in schema) =>
      \A g \in RegistrationOf(req[r]) : LoggedInAs(req[r].resp, g.uid)

\* C5 as first stated: the same over every shape, the password_hash column
\* being optional.
C5_LoginAfterRegisterAnyShape ==
  \A r \in Slots :
    LoginAfterRegister(req[r]) =>
      \A g \in RegistrationOf(req[r]) : LoggedInAs(req[r].resp, g.uid)

\* Registered in one letter case, logged in in the other, on a table whose
\* identifier column is id and that has neither name column.
C5_Witness ==
  \E r \in Slots :
    /\ LoginAfterRegister(req[r]) /\ "password_hash" \in schema
    /\ schema \cap IdColumns = {"id"} /\ schema \cap NameColumns = {}
    /\ \E u \in users : u.email = req[r].email /\ u.email # req[r].body.email
    /\ \E g \in RegistrationOf(req[r]) : LoggedInAs(req[r].resp, g.uid)

\* ------------------------------- specification: sessions (tokens and time)
\* One request at a time, no store failure, the clock running: register,
\* login, and the protected routes behind verifyToken, on the table
\* ensureSchema creates and on one with neither name column.
SessionShapes ==
  {{"user_id", "email", "name", "password_hash", "created_at"},
   {"id", "email", "password_hash"}}
SessionRegisterBodies ==
  {[email |-> Str(<<"a", "@", "x">>), password |-> Secret, name |-> Undef]}
SessionLoginBodies ==
  {[email |-> Str(<<"A", "@", "X">>), password |-> Secret, name |-> Undef],
   [email |-> Str(<<"a", "@", "x">>), password |-> ShortPassword, name |-> Undef]}
InitSession == Start(SessionShapes, {"production"}, {NoAccess}, 1)
NextSession ==
  \/ \E d \in TickSteps : Tick(d)
  \/ \E r \in Slots, b \in SessionRegisterBodies : RegisterBegin(r, b, "ok")
  \/ \E r \in Slots : RegisterExists(r, "ok")
  \/ \E r \in Slots : RegisterColumns(r, "ok")
  \/ \E r \in Slots : RegisterInsert(r, "ok")
  \/ \E r \in Slots, b \in SessionLoginBodies : LoginBegin(r, b, "ok")
  \/ \E r \in Slots : GetUserIdColumn(r, "ok")
  \/ \E r \in Slots : GetNameExpr(r, "ok")
  \/ \E r \in Slots : LoginSelect(r, "ok")
  \/ \E r \in Slots, h \in HeaderInputs : GetMeBegin(r, h, "ok")
  \/ \E r \in Slots : GetCreatedAtExpr(r, "ok")
  \/ \E r \in Slots : GetMeSelect(r, "ok")
  \/ \E r \in Slots, h \in HeaderInputs : Logout(r, h)
  \/ \E r \in Slots, h \in HeaderInputs : VerifyAadhaar(r, h)
  \/ \E r \in Slots, h \in HeaderInputs, n \in ProfileNames : UpdateProfileBegin(r, h, n, "ok")
  \/ \E r \in Slots : UpdateProfileCols(r, "ok")
  \/ \E r \in Slots : UpdateProfileExec(r, "ok")
  \/ \E r \in Slots : Retire(r)
SpecSession == InitSession /\ [][NextSession]_vars

\* ------------------------------------------------------------ C3
Protected == {"getMe", "logout", "verifyAadhaar", "updateProfile"}
\* The request went through verifyToken; rq.at is the time it did.
Gated(rq) == rq.op \in Protected /\ rq.pc # "idle"
ValidAt(seg, at) == seg.text = "jwt" /\ seg.tok.sig = "secret" /\ at < seg.tok.exp
BearerForm(h) == Len(h) = 2 /\ h[1] = Word("Bearer") /\ h[2].text # ""

\* C3: verifyToken calls next(), with the decoded payload as req.user, only
\* for an Authorization header of the form 'Bearer <token>' whose token has
\* a valid signature and is not expired; every other request is answered
\* 401 and its handler never runs.
C3_OnlyBearerTokenAdmitted ==
  \A r \in Slots :
    Gated(req[r]) =>
      IF BearerForm(req[r].header) /\ ValidAt(req[r].header[2], req[r].at)
      THEN req[r].next /\ req[r].user = req[r].header[2].tok
      ELSE ~req[r].next /\ req[r].pc = "done" /\ req[r].resp.status = 401

\* ------------------------------------------------------------ C7
LoginTokens ==
  issued \cup {req[r].resp.token : r \in {q \in Slots : req[q].op = "login"
                                                       /\ req[q].resp.status = 200}}
Presents(rq, t) == Gated(rq) /\ Len(rq.header) >= 2 /\ rq.header[2] = Jwt(t)
Expired401 == Json(401, <<"Token expired. Please login again.">>)

\* C7: a token login issued expires exactly one hour (3600 s) after it was
\* issued, and no later state holds it with another expiry; verifyToken
\* admits it at every time before its expiry and answers the 'expired' 401
\* from the expiry on, which is not the 'invalid' 401 it gives a token that
\* is malformed or signed with another key.
C7_TokenLivesOneHour ==
  /\ \A t \in LoginTokens : t.exp = t.iat + 3600 /\ t.sig = "secret"
  /\ \A r \in Slots : \A t \in issued :
       /\ (Presents(req[r], t) /\ req[r].at < t.iat + 3600) => req[r].next
       /\ (Presents(req[r], t) /\ req[r].at >= t.iat + 3600) =>
            ~req[r].next /\ req[r].resp = Expired401
  /\ \A r \in Slots :
       (Gated(req[r]) /\ Len(req[r].header) >= 2
        /\ (req[r].header[2].text = "garbage" \/ req[r].header[2].tok.sig = "other"))
         => /\ ~req[r].next /\ req[r].resp.status = 401
            /\ req[r].resp.message[1] = "Invalid token: "

\* A token was admitted one second before its expiry, and (in another
\* state) refused as expired one second after it.
C7_Witness ==
  \E r \in Slots : \E t \in issued :
    /\ Presents(req[r], t) /\ req[r].at = t.exp - 1 /\ req[r].next
C7_WitnessExpired ==
  \E r \in Slots : \E t \in issued :
    /\ Presents(req[r], t) /\ req[r].at = t.exp + 1 /\ req[r].resp = Expired401

\* ------------------------------------------------------------ C10
\* updateProfile by an authenticated principal with a non-empty name, its
\* catalog query answered.
ProfileDecided(rq) ==
  /\ rq.op = "updateProfile" /\ rq.pc = "done" /\ rq.next /\ ~rq.faulted
  /\ Truthy(rq.body.name) /\ rq.body.name.t = "string"

\* C10: when the users table has neither full_name nor name, updateProfile
\* fails with a configuration error of the 500 class, not a client error,
\* and issues no UPDATE.
C10_NoNameColumnIs500 ==
  \A r \in Slots :
    (ProfileDecided(req[r]) /\ schema \cap NameColumns = {}) =>
      /\ req[r].resp.status = 500
      /\ "UPDATE users" \notin Range(req[r].sql)

\* -------------------------------------- specification: room verify-access
\* verify-access requests, one at a time, over every content of the joined
\* tables, the clock running through the booking windows.
InitAccess ==
  Start({{"user_id", "email", "name", "password_hash", "created_at"}},
        {"production"}, AccessInputs, 1)
NextAccess ==
  \/ \E d \in TickSteps : Tick(d)
  \/ \E r \in Slots, uid \in 0..2, qr \in {"", "q1", "q2"}, o \in Outcomes :
       VerifyAccessBegin(r, uid, qr, o)
  \/ \E r \in Slots, o \in Outcomes : VerifyAccessSelect(r, o)
  \/ \E r \in Slots : Retire(r)
SpecAccess == InitAccess /\ [][NextAccess]_vars

\* ------------------------------------------------------------ C9
AccessDecided(rq) ==
  /\ rq.op = "verifyAccess" /\ rq.pc = "done" /\ ~rq.faulted
  /\ rq.user_id # 0 /\ rq.qr_code_id # ""
\* the valid token records of the bookings of user uid, in their window at
\* time at, for a room whose QR code is qr
Grants(uid, qr, at) ==
  {bt \in access.booking_tokens :
     /\ bt.is_valid
     /\ \E b \in access.bookings :
          /\ b.booking_id = bt.booking_id /\ b.user_id = uid
          /\ b.check_in_time <= at /\ at <= b.check_out_time
          /\ \E rm \in access.rooms : rm.room_id = b.room_id /\ rm.qr_code_id = qr}
VerificationFailed == Json(403, <<"Verification failed. Invalid or expired booking.">>)

\* C9: a verify-access request that names a user and a QR code succeeds, with
\* the token id and the digital signature of a stored token record, if and
\* only if the user owns a booking for the room with that QR code, with a
\* token record marked valid, and check-in <= now <= check-out; whichever of
\* these fails, the answer is the one 403 'Verification failed' response; and
\* the request issues nothing but its SELECT.
C9_AccessGrantedIffValidBooking ==
  \A r \in Slots :
    AccessDecided(req[r]) =>
      /\ IF Grants(req[r].user_id, req[r].qr_code_id, req[r].at) # {}
         THEN /\ req[r].resp.status = 200
              /\ \E bt \in Grants(req[r].user_id, req[r].qr_code_id, req[r].at) :
                   /\ req[r].resp.booking_token = bt.token_id
                   /\ req[r].resp.digital_signature = bt.digital_signature
         ELSE req[r].resp = VerificationFailed
      /\ Range(req[r].sql) = {"SELECT bookings"}

\* Access was granted inside the window; and was refused for a booking whose
\* only token record is marked invalid.
C9_Witness ==
  \E r \in Slots :
    /\ AccessDecided(req[r]) /\ req[r].resp.status = 200
    /\ req[r].resp.digital_signature = "s1" /\ req[r].at = ExpiresIn
C9_WitnessRefused ==
  \E r \in Slots :
    /\ AccessDecided(req[r]) /\ req[r].resp = VerificationFailed
    /\ AccessRowsAnyToken(req[r].user_id, req[r].qr_code_id, req[r].at) # {}

\* ---------------------------------------------------------- the whole server
\* Tables found at boot: none, the legacy table (with audit_logs), a table
\* with every column the adaptive controller knows.
BootShapes ==
  {{},
   {"user_id", "aadhaar_key", "full_name", "contact_number", "email", "audit_logs"},
   {"id", "email", "full_name", "name", "password_hash", "aadhaar_key", "created_at"}}
\* A token a client kept from before this boot.
KeptToken == JwtSign(1, 0, ExpiresIn)
Headers == {<<>>, <<Word("Bearer"), Jwt(KeptToken)>>}
Bodies ==
  {[email |-> Str(<<"a", "@", "x">>), password |-> Secret, name |-> Undef],
   [email |-> Str(<<"a", "@", "x">>), password |-> ShortPassword, name |-> Undef]}
Credentials ==
  {[email |-> Str(<<"A", "@", "X">>), password |-> Secret, name |-> Undef],
   [email |-> Undef, password |-> Secret, name |-> Undef]}
LegacyCredentials ==
  {[aadhaar_key |-> Str(<<"k">>), contact_number |-> Str(<<"9">>)],
   [aadhaar_key |-> Undef, contact_number |-> Str(<<"9">>)]}

Init ==
  /\ schema \in BootShapes
  /\ users = {}
  /\ nextId = 1
  /\ audit = {}
  /\ env \in {"production", "development"}
  /\ cachedUserIdColumn = ""
  /\ req = [r \in Slots |-> Idle]
  /\ pool = [out |-> 0]
  /\ faults = 0
  /\ now = 0
  /\ ticks = 0
  /\ issued = {KeptToken}
  /\ access = [bookings |-> BookingInputs, rooms |-> Rooms,
               booking_tokens |-> BookingTokenInputs]
  /\ width = 0
  /\ registered = {}
  /\ loggedOut = {}
  /\ written = <<>>

Next ==
  \/ \E o \in Outcomes, k \in 0..3 : EnsureSchema(o, k)
  \/ Serverless
  \/ \E r \in Slots, o \in Outcomes, b \in Bodies : RegisterBegin(r, b, o)
  \/ \E r \in Slots, o \in Outcomes : RegisterExists(r, o)
  \/ \E r \in Slots, o \in Outcomes : RegisterColumns(r, o)
  \/ \E r \in Slots, o \in Outcomes : RegisterInsert(r, o)
  \/ \E r \in Slots, o \in Outcomes, b \in Credentials : LoginBegin(r, b, o)
  \/ \E r \in Slots, o \in Outcomes : GetUserIdColumn(r, o)
  \/ \E r \in Slots, o \in Outcomes : GetNameExpr(r, o)
  \/ \E r \in Slots, o \in Outcomes : LoginSelect(r, o)
  \/ \E r \in Slots, o \in Outcomes, h \in Headers : GetMeBegin(r, h, o)
  \/ \E r \in Slots, o \in Outcomes : GetCreatedAtExpr(r, o)
  \/ \E r \in Slots, o \in Outcomes : GetMeSelect(r, o)
  \/ \E r \in Slots, h \in Headers : Logout(r, h)
  \/ \E r \in Slots, h \in Headers : VerifyAadhaar(r, h)
  \/ \E r \in Slots, o \in Outcomes, h \in Headers : UpdateProfileBegin(r, h, Str(<<"Z", "o">>), o)
  \/ \E r \in Slots, o \in Outcomes : UpdateProfileCols(r, o)
  \/ \E r \in Slots, o \in Outcomes : UpdateProfileExec(r, o)
  \/ \E r \in Slots, o \in Outcomes, b \in LegacyBodies : LegacyRegisterBegin(r, b, o)
  \/ \E r \in Slots, o \in Outcomes : LegacyCheckAadhaar(r, o)
  \/ \E r \in Slots, o \in Outcomes : LegacyCheckContact(r, o)
  \/ \E r \in Slots, o \in Outcomes : LegacyInsert(r, o)
  \/ \E r \in Slots, o \in Outcomes, b \in LegacyCredentials : LegacyLoginBegin(r, b, o)
  \/ \E r \in Slots, o \in Outcomes : LegacyLoginSelect(r, o)
  \/ \E r \in Slots, o \in Outcomes, h \in Headers : LegacyLogoutBegin(r, h, o)
  \/ \E r \in Slots, o \in Outcomes : LegacyAudit(r, o)
  \/ \E r \in Slots, o \in Outcomes, h \in Headers : LegacyGetMeBegin(r, h, o)
  \/ \E r \in Slots, o \in Outcomes : LegacyGetMeSelect(r, o)
  \/ \E r \in Slots, o \in Outcomes, route \in ListRoutes : ListBegin(r, route, o)
  \/ \E r \in Slots, o \in Outcomes : ListSelect(r, o)
  \/ \E r \in Slots, o \in Outcomes, in \in {<<1, "q1">>, <<0, "">>} : VerifyAccessBegin(r, in[1], in[2], o)
  \/ \E r \in Slots, o \in Outcomes : VerifyAccessSelect(r, o)
Spec == Init /\ [][Next]_vars

\* ------------------------------------------------------------------- C2
Holding == {r \in Slots : req[r].client /\ req[r].released = 0}
Quiet == \A r \in Slots : req[r].pc \in {"idle", "done"}

\* C2: every handler that acquired a connection has released it exactly once
\* when it has answered, whatever the exit path; nothing is released twice or
\* without having been acquired (a failed pool.connect releases nothing); the
\* connections out of the pool are those of the handlers still running, none
\* once every request has completed.
C2_ConnectionReleasedExactlyOnce ==
  /\ \A r \in Slots :
       LET rq == req[r] IN
       /\ rq.released <= (IF rq.client THEN 1 ELSE 0)
       /\ rq.pc = "done" => rq.released = (IF rq.client THEN 1 ELSE 0)
       /\ rq.pc \notin {"idle", "done"} /\ rq.client => rq.released = 0
  /\ pool.out = Cardinality(Holding)
  /\ Quiet => pool.out = 0

\* One handler ended on a thrown query, another on its success path, both
\* after acquiring a connection, and both have completed.
C2_Witness ==
  /\ Quiet
  /\ \E r, q \in Slots :
       /\ req[r].pc = "done" /\ req[r].client /\ req[r].faulted
       /\ req[r].sql # <<>> /\ req[r].resp.status = 500
       /\ req[q].pc = "done" /\ req[q].client /\ req[q].resp.status \in {200, 201}

\* ------------------------------------------------------------------- C8
StoreErrors == {ErrStore, ErrUndefined, ErrUnique}
\* The response carries an exception's message, code or detail.
Raw(resp) ==
  \E e \in StoreErrors :
    \/ e.message \in Range(resp.message)
    \/ resp.code = e.code
    \/ e.detail # "" /\ resp.detail = e.detail

\* C8: in production no answer carries the message, the code or the detail of
\* an exception the store threw.
C8_NoRawDetailInProduction ==
  env = "production" => \A r \in Slots : req[r].pc = "done" => ~Raw(req[r].resp)

\* The part that holds: code and detail never leave a production server.
C8_NoCodeOrDetailInProduction ==
  env = "production" =>
    \A r \in Slots : req[r].pc = "done" =>
      req[r].resp.code = "" /\ req[r].resp.detail = ""

\* ------------------------------------------------------------------ C11
\* The request presents, as its token, a token this server signed.
PresentsSigned(rq) ==
  /\ Gated(rq) /\ Len(rq.header) >= 2
  /\ rq.header[2].text = "jwt" /\ rq.header[2].tok.sig = "secret"

\* C11: logout invalidates nothing.  A token this server signed is admitted
\* by verifyToken exactly when it is presented before its expiry, whether or
\* not logout was called with it before: only the clock reaching the expiry
\* turns it into a rejected one, and the tokens logout was called with are
\* still admitted while they are unexpired.
C11_LogoutInvalidatesNothing ==
  \A r \in Slots :
    PresentsSigned(req[r]) =>
      LET t == req[r].header[2].tok IN
      /\ req[r].next <=> req[r].at < t.exp
      /\ (t \in loggedOut /\ req[r].at < t.exp) => req[r].next /\ req[r].user = t

\* After a logout with a token and a later advance of the clock, getMe is
\* called with the same token, still unexpired, and is admitted.
C11_Witness ==
  \E r \in Slots :
    /\ PresentsSigned(req[r]) /\ req[r].op = "getMe"
    /\ req[r].header[2].tok \in loggedOut
    /\ req[r].at > req[r].header[2].tok.iat
    /\ req[r].next /\ req[r].pc = "done" /\ req[r].resp.status = 200

\* ------------------------------------------------------------------ C12
\* Tables with both name columns; register, updateProfile and getMe
\* interleaved at every await, on a store that starts empty.
ProfileShapes ==
  {{"id", "email", "full_name", "name", "password_hash"},
   {"user_id", "email", "full_name", "name", "password_hash", "created_at"}}
ProfileBodies ==
  {[email |-> Str(<<"a", "@", "x">>), password |-> Secret, name |-> Undef],
   [email |-> Str(<<"a", "@", "x">>), password |-> Secret, name |-> Str(<<"B", "o">>)],
   [email |-> Str(<<"b", "@", "x">>), password |-> Secret, name |-> Undef]}
NewNames == {Str(<<"Z", "o">>), Str(<<"A", "l">>)}
InitProfile ==
  /\ schema \in ProfileShapes
  /\ users = {}
  /\ nextId = 1
  /\ audit = {}
  /\ env = "production"
  /\ cachedUserIdColumn = ""
  /\ req = [r \in Slots |-> Idle]
  /\ pool = [out |-> 0]
  /\ faults = 0
  /\ now = 0
  /\ ticks = 0
  /\ issued = {KeptToken}
  /\ access = NoAccess
  /\ width = MaxReq
  /\ registered = {}
  /\ loggedOut = {}
  /\ written = <<>>
NextProfile ==
  \/ \E r \in Slots, b \in ProfileBodies, o \in Outcomes : RegisterBegin(r, b, o)
  \/ \E r \in Slots, o \in Outcomes : RegisterExists(r, o)
  \/ \E r \in Slots, o \in Outcomes : RegisterColumns(r, o)
  \/ \E r \in Slots, o \in Outcomes : RegisterInsert(r, o)
  \/ \E r \in Slots, n \in NewNames, o \in Outcomes :
       UpdateProfileBegin(r, <<Word("Bearer"), Jwt(KeptToken)>>, n, o)
  \/ \E r \in Slots, o \in Outcomes : GetUserIdColumn(r, o)
  \/ \E r \in Slots, o \in Outcomes : UpdateProfileCols(r, o)
  \/ \E r \in Slots, o \in Outcomes : UpdateProfileExec(r, o)
  \/ \E r \in Slots, o \in Outcomes :
       GetMeBegin(r, <<Word("Bearer"), Jwt(KeptToken)>>, o)
  \/ \E r \in Slots, o \in Outcomes : GetNameExpr(r, o)
  \/ \E r \in Slots, o \in Outcomes : GetCreatedAtExpr(r, o)
  \/ \E r \in Slots, o \in Outcomes : GetMeSelect(r, o)
  \/ \E r \in Slots : Retire(r)
SpecProfile == InitProfile /\ [][NextProfile]_vars

\* Every row holds, in both name columns, the name last written for it.
NamesConsistent ==
  \A u \in users :
    /\ u.full_name = u.name
    /\ u.uid \in DOMAIN written
    /\ u.name = written[u.uid]
\* getMe's SELECT answers with the name last written for the caller.
GetMeReadsLastName ==
  \A r \in Slots :
    (req[r].op = "getMe" /\ req[r].pc = "select"
     /\ req'[r].pc = "done" /\ req'[r].resp.status = 200)
      => req'[r].resp.user.name = written[req[r].user.userId]

\* C12: on a table with both full_name and name, after any interleaving of
\* register and updateProfile calls on a store that starts empty, every user
\* row has full_name = name, equal to the name last written for that user,
\* and that is the display name getMe reads.
C12_NameColumnsStayEqual ==
  /\ [](NameColumns \subseteq schema => NamesConsistent)
  /\ [][NameColumns \subseteq schema => GetMeReadsLastName]_vars

\* A user registered without a name was renamed by updateProfile, a second
\* user is untouched, and getMe has read the new name.
C12_Witness ==
  /\ NameColumns \subseteq schema
  /\ \E u, v \in users :
       /\ u.uid = KeptToken.userId /\ u.name \in NewNames /\ u.full_name = u.name
       /\ v.uid # u.uid
       /\ \E r \in Slots :
            /\ req[r].op = "getMe" /\ req[r].pc = "done"
            /\ req[r].resp.status = 200 /\ req[r].resp.user.name = u.name

\* ------------------------------------------------------------------ C13
\* login, getMe and updateProfile, the callers of getUserIdColumn, run
\* concurrently and interleaved at every await, on a table that has id,
\* user_id, neither, or both.
CacheShapes ==
  {{"email", "name", "password_hash"} \cup ids :
     ids \in {{}, {"id"}, {"user_id"}, {"id", "user_id"}}}
InitCache ==
  /\ schema \in CacheShapes
  /\ users = {}
  /\ nextId = 1
  /\ audit = {}
  /\ env = "production"
  /\ cachedUserIdColumn = ""
  /\ req = [r \in Slots |-> Idle]
  /\ pool = [out |-> 0]
  /\ faults = 0
  /\ now = 0
  /\ ticks = 0
  /\ issued = {KeptToken}
  /\ access = NoAccess
  /\ width = MaxReq
  /\ registered = {}
  /\ loggedOut = {}
  /\ written = <<>>
NextCache ==
  \/ \E r \in Slots, b \in Credentials, o \in Outcomes : LoginBegin(r, b, o)
  \/ \E r \in Slots, o \in Outcomes :
       GetMeBegin(r, <<Word("Bearer"), Jwt(KeptToken)>>, o)
  \/ \E r \in Slots, o \in Outcomes :
       UpdateProfileBegin(r, <<Word("Bearer"), Jwt(KeptToken)>>, Str(<<"Z", "o">>), o)
  \/ \E r \in Slots, o \in Outcomes : GetUserIdColumn(r, o)
  \/ \E r \in Slots, o \in Outcomes : GetNameExpr(r, o)
  \/ \E r \in Slots, o \in Outcomes : GetCreatedAtExpr(r, o)
  \/ \E r \in Slots, o \in Outcomes : LoginSelect(r, o)
  \/ \E r \in Slots, o \in Outcomes : GetMeSelect(r, o)
  \/ \E r \in Slots, o \in Outcomes : UpdateProfileCols(r, o)
  \/ \E r \in Slots, o \in Outcomes : UpdateProfileExec(r, o)
  \/ \E r \in Slots : Retire(r)
SpecCache == InitCache /\ [][NextCache]_vars

\* What every call returned is what the cache holds, and it is the table's
\* identifier column, or user_id when the table has neither.
CacheAgrees ==
  /\ \A r \in Slots : req[r].idCol # "" => req[r].idCol = cachedUserIdColumn
  /\ cachedUserIdColumn # "" =>
       IF schema \cap IdColumns = {} THEN cachedUserIdColumn = "user_id"
       ELSE cachedUserIdColumn \in schema \cap IdColumns
\* Once written the cache keeps its value.
CacheKeeps == cachedUserIdColumn # "" => cachedUserIdColumn' = cachedUserIdColumn
\* The table has at most one of id and user_id.
OneIdColumn == Cardinality(schema \cap IdColumns) <= 1

\* C13 as amended: on a table that has at most one of the columns id and
\* user_id, with requests interleaved at every await, the cache once
\* written never changes, every call of getUserIdColumn returns the cached
\* name, and that name is the identifier column the table has (user_id
\* when it has neither).
C13_CacheStableWithOneIdColumn ==
  /\ [](OneIdColumn => CacheAgrees)
  /\ [][OneIdColumn => CacheKeeps]_vars

\* C13 as first stated: the same on every table, also one that has both id
\* and user_id.
C13_CacheStable ==
  /\ []CacheAgrees
  /\ [][CacheKeeps]_vars

\* Two logins both found the cache empty and both ran the lookup (three
\* statements each: the lookup, the name columns, the SELECT); both hold
\* the name now cached.
C13_Witness ==
  /\ OneIdColumn /\ schema \cap IdColumns # {}
  /\ \E r, q \in Slots :
       /\ r # q
       /\ req[r].op = "login" /\ req[r].pc = "done" /\ Len(req[r].sql) = 3
       /\ req[q].op = "login" /\ req[q].pc = "done" /\ Len(req[q].sql) = 3
       /\ req[r].idCol = cachedUserIdColumn /\ req[q].idCol = cachedUserIdColumn
       /\ cachedUserIdColumn \in schema

\* ------------------------------------------------------------------ C14
\* The columns of users a statement of register names: the pre-check
\* filters on email, the INSERT lists insertCols, the catalog query names
\* none.
RegisterStatementColumns(rq, stmt) ==
  CASE stmt = "SELECT users" -> {"email"}
    [] stmt = "INSERT users" -> Range(rq.insertCols)
    [] OTHER -> {}
\* The INSERT's column list is drawn from the insertable columns the table
\* has, with one parameter per column.
InsertListFits(rq) ==
  /\ Range(rq.insertCols) \subseteq InsertableColumns \cap schema
  /\ Len(rq.values) = Len(rq.insertCols)
\* With no insertable column registration ends in a 500 without an INSERT.
NoColumnsIs500(rq) ==
  (InsertableColumns \cap schema = {} /\ rq.pc = "done" /\ rq.client)
    => rq.resp.status = 500 /\ "INSERT users" \notin Range(rq.sql)

\* C14: for every shape of the users table register names no column the
\* table lacks in any statement it issues; the INSERT lists only insertable
\* columns that are present, with as many parameters; and with no such
\* column registration fails with a 500 and executes no INSERT.
C14_RegisterNamesOnlyPresentColumns ==
  \A r \in Slots :
    req[r].op = "register" =>
      /\ \A i \in DOMAIN req[r].sql :
           RegisterStatementColumns(req[r], req[r].sql[i]) \subseteq schema
      /\ InsertListFits(req[r])
      /\ NoColumnsIs500(req[r])

\* The part that holds: the INSERT and the outcome on a table without any
\* insertable column.
C14_InsertNamesOnlyPresentColumns ==
  \A r \in Slots :
    req[r].op = "register" => InsertListFits(req[r]) /\ NoColumnsIs500(req[r])

====
